---------------------------- MODULE Spec2Model ----------------------------
(***************************************************************************)
(* A model of magcoordpy: the IGRF coefficient table and its epoch         *)
(* interpolation (igrf_coeffs.py), the centred-dipole pole and the frame   *)
(* transforms (coord_transforms.py), the subsolar ephemeris (helpers.py)   *)
(* and the magnetic local time.                                            *)
(*                                                                         *)
(* The library is a set of pure functions over one immutable table, so     *)
(* the state machine is the record of the last call: which function was    *)
(* called, with what, what it returned or raised and what it logged.       *)
(***************************************************************************)
EXTENDS Integers, Sequences, FiniteSets, TLC

VARIABLES
    op,      \* name of the function called last ("none" after import)
    arg,     \* its arguments
    ret,     \* what it returned: [exc |-> "none", ...] or [exc |-> <error>]
    log,     \* the log records the call emitted, in order
    origin,  \* for a call fed with another call's result: that call
    local    \* locals of the call the properties look at (not returned)

vars == <<op, arg, ret, log, origin, local>>

-----------------------------------------------------------------------------
(* Units.  A date is a decimal year held in tenths of a year.  Interpolation *)
(* weights and interpolated coefficients are held in fiftieths: 0.2 per    *)
(* year times a tenth of a year is one fiftieth.                           *)

Date(year, tenth) == 10 * year + tenth

WeightDen == 5 * 10

(* Python's None and a number as list elements. *)
None == <<>>
Some(x) == <<x>>

-----------------------------------------------------------------------------
(* The coefficient file.  The data file itself (data/igrf13coeffs.txt) is  *)
(* data, not code; the model gives it the shape load_coeffs and get_coeffs *)
(* are written for: header lines, then one "g " or "h " line per (n, m)    *)
(* up to degree 13, each with a tag, n, m and one value per column: the 25 *)
(* epochs 1900.0 .. 2020.0 and the secular variation.                      *)

NEpochCols == 25

NValueCols == NEpochCols + 1

MaxDegree == 13

(* The value of coefficient row k (0-based) in value column c (0-based).   *)
(* Rows 0, 1, 2 are g10, g11, h11: they place the dipole axis.  The axis   *)
(* is the geographic axis in the degree-10 epochs, lies in the equator at  *)
(* longitude 0 in the epochs 1995-2015, and in the equator at longitude    *)
(* -90 from 2020 on.                                                       *)
Cell(k, c) ==
    IF k = 0 THEN (IF c < 19 THEN c - 30 ELSE 0)
    ELSE IF k = 1 THEN (IF c >= 19 /\ c < 24 THEN 0 - c ELSE 0)
    ELSE IF k = 2 THEN (IF c = 24 THEN 24 ELSE IF c = 25 THEN 1 ELSE 0)
    ELSE 1000 * c + k

RowValues(k) == [c \in 1..NValueCols |-> Cell(k, c - 1)]

RECURSIVE DegreeLines(_, _, _)
DegreeLines(n, m, k) ==
    IF m > n THEN <<>>
    ELSE IF m = 0
    THEN <<[prefix |-> "g ", tokens |-> <<"g", n, m>> \o RowValues(k)]>>
         \o DegreeLines(n, m + 1, k + 1)
    ELSE <<[prefix |-> "g ", tokens |-> <<"g", n, m>> \o RowValues(k)],
           [prefix |-> "h ", tokens |-> <<"h", n, m>> \o RowValues(k + 1)]>>
         \o DegreeLines(n, m + 1, k + 2)

RECURSIVE DataLines(_)
DataLines(n) ==
    IF n > MaxDegree THEN <<>>
    ELSE DegreeLines(n, 0, (n - 1) * (n + 1)) \o DataLines(n + 1)

HeaderLines ==
    << [prefix |-> "# ", tokens |-> <<"#", "13th", "Generation">>],
       [prefix |-> "c/", tokens |-> <<"c/s", "deg", "ord", "IGRF">>],
       [prefix |-> "g/", tokens |-> <<"g/h", "n", "m", "1900.0">>] >>

igrf_file == HeaderLines \o DataLines(1)

-----------------------------------------------------------------------------
(* load_coeffs *)

IsCoefficientLine(a) == a.prefix = "g " \/ a.prefix = "h "

SelectRows(text) ==
    LET kept == SelectSeq(text, IsCoefficientLine)
    IN  [i \in 1..Len(kept) |-> SubSeq(kept[i].tokens, 4, Len(kept[i].tokens))]

Transpose(rows) ==
    IF Len(rows) = 0 THEN <<>>
    ELSE [i \in 1..Len(rows[1]) |-> [j \in 1..Len(rows) |-> rows[j][i]]]

(* FlattenCols without the cut at 120 rows in the first 19 columns *)
RECURSIVE FlattenColsWhole(_, _)
FlattenColsWhole(gh2arr, i) ==
    IF i >= Len(gh2arr) THEN <<>>
    ELSE gh2arr[i + 1] \o FlattenColsWhole(gh2arr, i + 1)

RECURSIVE FlattenCols(_, _)
FlattenCols(gh2arr, i) ==
    IF i >= Len(gh2arr) THEN <<>>
    ELSE (IF i < 19
          THEN [j \in 1..120 |-> gh2arr[i + 1][j + 0]]
          ELSE gh2arr[i + 1])
         \o FlattenCols(gh2arr, i + 1)

load_coeffs(text) ==
    LET gh2arr == Transpose(SelectRows(text))
    IN  FlattenCols(gh2arr, 0) \o <<0>>

GH == load_coeffs(igrf_file)

-----------------------------------------------------------------------------
(* Python list indexing: gh[i] with i < 0 counts from the end, and an      *)
(* index outside [-len, len) raises IndexError.                            *)

PyIndexOK(gh, i) == (0 - Len(gh)) <= i /\ i < Len(gh)

PyGet(gh, i) == IF i >= 0 THEN gh[i + 1] ELSE gh[Len(gh) + i + 1]

-----------------------------------------------------------------------------
(* get_coeffs *)

DateTooEarly(date) == date < Date(1900, 0)

(* DateTooLate with the end point 2030.0 rejected *)
DateTooLateInclusive(date) == date >= Date(2030, 0)

DateTooLate(date) == date > Date(2030, 0)

(* WarnReducedAccuracy with the warning from 2025.0 on *)
WarnReducedAccuracyFrom2025(date) == date >= Date(2025, 0)

WarnReducedAccuracy(date) == date > Date(2025, 0)

(* The branch of get_coeffs the date selects: the weights t and tc (in     *)
(* fiftieths), the pointer ll, the degree nmx and the block length nc.     *)
Regime(date) ==
    IF date >= Date(2020, 0)
    THEN LET nmx == 13 IN
         [t |-> 5 * (date - Date(2020, 0)), tc |-> WeightDen,
          ll |-> 3060 + 195, nmx |-> nmx, nc |-> nmx * (nmx + 2)]
    ELSE LET traw == date - Date(1900, 0)
             ll0  == traw \div WeightDen
             t    == traw - WeightDen * ll0
         IN  IF date < Date(1995, 0)
             THEN LET nmx == 10
                      nc  == nmx * (nmx + 2)
                  IN  [t |-> t, tc |-> WeightDen - t, ll |-> nc * ll0,
                       nmx |-> nmx, nc |-> nc]
             ELSE LET nmx == 13
                      nc  == nmx * (nmx + 2)
                      ll1 == (date - Date(1995, 0)) \div WeightDen
                  IN  [t |-> t, tc |-> WeightDen - t,
                       ll |-> 120 * 19 + nc * ll1, nmx |-> nmx, nc |-> nc]

(* Blend with no interpolation: the value of the epoch block, whatever t *)
BlendHold(gh, p, i) == WeightDen * PyGet(gh, i)

(* Blend with the two weights exchanged *)
BlendSwapped(gh, p, i) == p.t * PyGet(gh, i) + p.tc * PyGet(gh, i + p.nc)

Blend(gh, p, i) == p.tc * PyGet(gh, i) + p.t * PyGet(gh, i + p.nc)

(* The entries row 0 of g holds before the loop over m starts. *)
FirstRowPrefix(n) == IF n = 0 THEN <<None>> ELSE <<>>

(* for m in range(n + 1) *)
RECURSIVE OrderLoop(_, _, _, _, _, _, _)
OrderLoop(gh, p, n, m, temp, grow, hrow) ==
    IF m > n THEN [ok |-> TRUE, g |-> grow, h |-> hrow, temp |-> temp]
    ELSE IF m # 0
    THEN IF  PyIndexOK(gh, temp) /\ PyIndexOK(gh, temp + p.nc)
          /\ PyIndexOK(gh, temp + 1) /\ PyIndexOK(gh, temp + p.nc + 1)
         THEN OrderLoop(gh, p, n, m + 1, temp + 2,
                        Append(grow, Some(Blend(gh, p, temp))),
                        Append(hrow, Some(Blend(gh, p, temp + 1))))
         ELSE [ok |-> FALSE]
    ELSE IF PyIndexOK(gh, temp) /\ PyIndexOK(gh, temp + p.nc)
         THEN OrderLoop(gh, p, n, m + 1, temp + 1,
                        Append(grow, Some(Blend(gh, p, temp))),
                        Append(hrow, None))
         ELSE [ok |-> FALSE]

(* for n in range(nmx + 1) *)
RECURSIVE DegreeLoop(_, _, _, _, _, _)
DegreeLoop(gh, p, n, temp, g, h) ==
    IF n > p.nmx THEN [exc |-> "none", g |-> g, h |-> h]
    ELSE LET row == OrderLoop(gh, p, n, 0, temp, FirstRowPrefix(n), <<>>) IN
         IF row.ok
         THEN DegreeLoop(gh, p, n + 1, row.temp,
                         Append(g, row.g), Append(h, row.h))
         ELSE [exc |-> "IndexError"]

get_coeffs_log(date) ==
    IF DateTooEarly(date) \/ DateTooLate(date)
    THEN <<"error: will not work with this date",
           "error: date must be in the range 1900.0 <= date <= 2030.0",
           "error: on return [], []">>
    ELSE IF date >= Date(2020, 0) /\ WarnReducedAccuracy(date)
    THEN <<"warning: intended for use up to 2025.0",
           "warning: values may be of reduced accuracy">>
    ELSE <<>>

get_coeffs(gh, date) ==
    IF DateTooEarly(date) \/ DateTooLate(date)
    THEN [exc |-> "none", g |-> <<>>, h |-> <<>>]
    ELSE LET p == Regime(date) IN DegreeLoop(gh, p, 0, p.ll - 1, <<>>, <<>>)

(* The indices the loops hand to gh[...], in the order Python evaluates    *)
(* them: gh[temp], gh[temp + nc] for g and, when m != 0, gh[temp + 1],     *)
(* gh[temp + nc + 1] for h.                                                *)
RECURSIVE OrderReads(_, _, _, _)
OrderReads(p, n, m, temp) ==
    IF m > n THEN <<>>
    ELSE IF m # 0
    THEN <<temp, temp + p.nc, temp + 1, temp + p.nc + 1>>
         \o OrderReads(p, n, m + 1, temp + 2)
    ELSE <<temp, temp + p.nc>> \o OrderReads(p, n, m + 1, temp + 1)

RECURSIVE DegreeReads(_, _, _)
DegreeReads(p, n, temp) ==
    IF n > p.nmx THEN <<>>
    ELSE OrderReads(p, n, 0, temp) \o DegreeReads(p, n + 1, temp + 2 * n + 1)

(* the reads made: all of them, or those up to the first that raises       *)
(* IndexError, that one included                                           *)
ReadUntilError(gh, idxs) ==
    LET bad == {k \in 1..Len(idxs) : ~PyIndexOK(gh, idxs[k])} IN
    IF bad = {} THEN idxs
    ELSE SubSeq(idxs, 1, CHOOSE k \in bad : \A l \in bad : k <= l)

(* the flat indices a call reads from gh, in the order it reads them *)
get_coeffs_reads(gh, date) ==
    IF DateTooEarly(date) \/ DateTooLate(date) THEN <<>>
    ELSE LET p == Regime(date)
         IN  ReadUntilError(gh, DegreeReads(p, 0, p.ll - 1))

-----------------------------------------------------------------------------
(* Numbers.  A real is held exactly as i + f / FracScale with 0 <= f <     *)
(* FracScale: six decimal places, so that a rounding to 2, 3 or 4 decimals *)
(* has something to round.  The integer part stays below 2^31 for every    *)
(* length the transforms meet (the subsolar height, 318 550 000 m).        *)

FracDigits == 6

RECURSIVE Pow10(_)
Pow10(k) == IF k = 0 THEN 1 ELSE 10 * Pow10(k - 1)

FracScale == Pow10(FracDigits)

Norm(i, f) == [i |-> i + (f \div FracScale), f |-> f % FracScale]

NInt(k) == [i |-> k, f |-> 0]

(* i + micro / 10^6 *)
Dec(i, micro) == [i |-> i, f |-> micro * Pow10(FracDigits - 6)]

NAdd(a, b) == Norm(a.i + b.i, a.f + b.f)

NNeg(a) == Norm(0 - a.i, 0 - a.f)

NSub(a, b) == NAdd(a, NNeg(b))

NMulInt(a, k) == Norm(a.i * k, a.f * k)

NLt(a, b) == a.i < b.i \/ (a.i = b.i /\ a.f < b.f)

NLe(a, b) == a = b \/ NLt(a, b)

NAbs(a) == IF NLt(a, NInt(0)) THEN NNeg(a) ELSE a

NSign(a) == IF a = NInt(0) THEN 0 ELSE IF NLt(a, NInt(0)) THEN 0 - 1 ELSE 1

(* np.round(a, decimals) for 0 <= decimals <= FracDigits: to the nearest   *)
(* multiple of 10^-decimals, a tie going to the even multiple.             *)
NRound(a, decimals) ==
    LET q   == Pow10(FracDigits - decimals)
        lo  == a.f \div q
        rem == a.f % q
        odd == IF decimals = 0 THEN a.i % 2 = 1 ELSE lo % 2 = 1
        up  == 2 * rem > q \/ (2 * rem = q /\ odd)
    IN  Norm(a.i, (lo + (IF up THEN 1 ELSE 0)) * q)

-----------------------------------------------------------------------------
(* Angles.  The transforms are rotations; the model evaluates them on the  *)
(* directions where sine and cosine are exact: every angle is a whole      *)
(* number of quarter turns.  An angle in radians is held as its number of  *)
(* quarter turns (pi is 2), an angle in degrees as a number.  On these     *)
(* directions every vector has one non-zero component.                     *)

pi == 1 + 1

OnGrid(deg) == deg.f = 0 /\ deg.i % 90 = 0

deg2rad(deg) == deg.i \div 90

rad2deg(rad) == NInt(90 * rad)

cos(rad) == LET q == rad % 4 IN IF q = 0 THEN 1 ELSE IF q = 2 THEN 0 - 1 ELSE 0

sin(rad) == LET q == rad % 4 IN IF q = 1 THEN 1 ELSE IF q = 3 THEN 0 - 1 ELSE 0

(* arccos of -1, 0, 1 *)
arccos(c) == IF c > 0 THEN 0 ELSE IF c = 0 THEN 1 ELSE 2

(* arctan2(y, x) from the signs of y and x when one of them is zero;       *)
(* arctan2(0, 0) is 0.                                                     *)
arctan2(sy, sx) ==
    IF sy = 0 THEN (IF sx < 0 THEN 2 ELSE 0)
    ELSE IF sy > 0 THEN 1 ELSE 0 - 1

AxisAligned(v) ==
    Cardinality({j \in 1..3 : v[j] # NInt(0)}) = 1

(* sqrt(x*x + y*y + z*z) of a vector with one non-zero component *)
Radius(v) ==
    IF v[1] # NInt(0) THEN NAbs(v[1])
    ELSE IF v[2] # NInt(0) THEN NAbs(v[2])
    ELSE NAbs(v[3])

(* the product of a number and a sine or cosine value *)
NScale(a, s) == NMulInt(a, s)

(* row . v for a row of sines and cosines *)
Dot(row, v) ==
    NAdd(NAdd(NScale(v[1], row[1]), NScale(v[2], row[2])), NScale(v[3], row[3]))

(* the integer square root of a perfect square *)
RECURSIVE SqrtBetween(_, _, _)
SqrtBetween(n, lo, hi) ==
    IF lo >= hi THEN lo
    ELSE LET mid == (lo + hi + 1) \div 2 IN
         IF mid * mid <= n THEN SqrtBetween(n, mid, hi)
         ELSE SqrtBetween(n, lo, mid - 1)

Sqrt(n) == SqrtBetween(n, 0, 40000)

-----------------------------------------------------------------------------
(* The ellipsoid (constants.py): the equatorial radius RE_M, and the polar *)
(* radius RE_M * sqrt(1 - E_SQ) of WGS84, in metres.                        *)

RE_M == NInt(6378137)

RP_M == Dec(6356752, 314245)

-----------------------------------------------------------------------------
(* compute_pos_centered_dipole_north_pole *)

IGRFError == "ValueError: IGRF coefficients not correctly extracted"

Unwrap(e) == e[1]

PoleFromCoeffs(g, h) ==
    LET g_n1_m0 == Unwrap(g[2][1])
        g_n1_m1 == Unwrap(g[2][2])
        h_n1_m1 == Unwrap(h[2][2])
        b0 == Sqrt(g_n1_m0 * g_n1_m0 + g_n1_m1 * g_n1_m1 + h_n1_m1 * h_n1_m1)
        sgn(x) == IF x = 0 THEN 0 ELSE IF x < 0 THEN 0 - 1 ELSE 1
    IN  [exc   |-> "none",
         colat |-> arccos((0 - g_n1_m0) \div b0),
         long  |-> arctan2(sgn(h_n1_m1), sgn(g_n1_m1)) - pi]

(* compute_pos_centered_dipole_north_pole without its check of len(g):    *)
(* g[1] of an empty list raises IndexError                                 *)
compute_pos_unchecked(year) ==
    LET c == get_coeffs(GH, year) IN
    IF c.exc # "none" THEN [exc |-> c.exc]
    ELSE IF Len(c.g) = 0 THEN [exc |-> "IndexError"]
    ELSE PoleFromCoeffs(c.g, c.h)

compute_pos_centered_dipole_north_pole(year) ==
    LET c == get_coeffs(GH, year) IN
    IF c.exc # "none" THEN [exc |-> c.exc]
    ELSE IF Len(c.g) = 0 THEN [exc |-> IGRFError]
    ELSE PoleFromCoeffs(c.g, c.h)

(* compute_pos_centered_dipole_north_pole is a pure function of the date   *)
(* and of the immutable table: the transforms read its value from this     *)
(* table of its values, evaluated once.                                    *)
PoleTable ==
    [year \in Date(1899, 0)..Date(2031, 9) |->
        compute_pos_centered_dipole_north_pole(year)]

PoleOf(year) == PoleTable[year]

(* The dates whose dipole axis is one of the exact directions: those where *)
(* only one of g10, g11, h11 is non-zero.                                  *)
AxisOnGrid(year) ==
    LET c == get_coeffs(GH, year) IN
    IF c.exc # "none" THEN TRUE
    ELSE IF Len(c.g) = 0 THEN TRUE
    ELSE LET d1 == <<c.g[2][1], c.g[2][2], c.h[2][2]>>
         IN  Cardinality({j \in 1..3 : d1[j] # Some(0)}) = 1

-----------------------------------------------------------------------------
(* Arguments.  A coordinate argument is a Python int, a float, a list or a *)
(* numpy array.  The three coordinate arguments of a call have one kind    *)
(* and one length; the model holds them as the kind and the sequence of    *)
(* the points (triples) they spell, and the three arrays a transform       *)
(* returns likewise.  An int or a float is one point.                      *)

Scalars == {"int", "float"}

(* AsArrays without the branch that wraps an int or a float *)
AsArraysListsOnly(kind) == IF kind = "list" THEN "ndarray" ELSE kind

(* what the transforms do to their arguments before computing *)
AsArrays(kind) ==
    IF kind = "list" THEN "ndarray"
    ELSE IF kind # "ndarray" THEN "ndarray"
    ELSE kind

(* a list in arithmetic with a number: 90 - [..] raises TypeError *)
ArithmeticOK(kind) == kind # "list"

(* F applied to the value of x *)
Apply(F(_), x) == CHOOSE r \in {F(v) : v \in {x}} : TRUE

EachPoint(F(_), pts) == [j \in 1..Len(pts) |-> Apply(F, pts[j])]

-----------------------------------------------------------------------------
(* The rotation between the geocentric and the centred-dipole frame *)

BaseVectors(colat, long) ==
    [m  |-> <<sin(colat) * cos(long), sin(colat) * sin(long), cos(colat)>>,
     xx |-> <<cos(colat) * cos(long), cos(colat) * sin(long), 0 - sin(colat)>>,
     yy |-> <<0 - sin(long), cos(long), 0>>]

(* R_geoc_cd = [xx, yy, m]; a point p goes to R_geoc_cd . p *)
RotateToCD(b, p) == <<Dot(b.xx, p), Dot(b.yy, p), Dot(b.m, p)>>

(* R_cd_geoc = [xx, yy, m].T; a point p goes to R_cd_geoc . p *)
RotateToGeoc(b, p) ==
    << Dot(<<b.xx[1], b.yy[1], b.m[1]>>, p),
       Dot(<<b.xx[2], b.yy[2], b.m[2]>>, p),
       Dot(<<b.xx[3], b.yy[3], b.m[3]>>, p) >>

ecef2eccdf(kind, geoc, year) ==
    LET pole == PoleOf(year) IN
    IF pole.exc # "none" THEN [exc |-> pole.exc]
    ELSE LET R(p) == RotateToCD(BaseVectors(pole.colat, pole.long), p)
         IN  [exc |-> "none", kind |-> AsArrays(kind), pts |-> EachPoint(R, geoc)]

eccdf2ecef(kind, cd, year) ==
    LET pole == PoleOf(year) IN
    IF pole.exc # "none" THEN [exc |-> pole.exc]
    ELSE LET R(p) == RotateToGeoc(BaseVectors(pole.colat, pole.long), p)
         IN  [exc |-> "none", kind |-> AsArrays(kind), pts |-> EachPoint(R, cd)]

-----------------------------------------------------------------------------
(* Cartesian and spherical coordinates *)

DefaultSphericalDecimals == 2

ecef2spherical(v, decimals) ==
    << NRound(rad2deg(arccos(NSign(v[3]))), decimals),
       NRound(rad2deg(arctan2(NSign(v[2]), NSign(v[1]))), decimals),
       NRound(Radius(v), decimals) >>

(* colat and long in radians *)
spherical2ecef(colat, long, r) ==
    << NScale(r, sin(colat) * cos(long)),
       NScale(r, sin(colat) * sin(long)),
       NScale(r, cos(colat)) >>

(* pymap3d.geodetic2ecef, degrees and metres, at latitude 0 (the radius of *)
(* curvature is RE_M) and at the poles (z is the polar radius plus the     *)
(* altitude); the same formulas as geodetic2ecef of this module.           *)
geodetic2ecef(lat_deg, lon_deg, alt_m) ==
    << NScale(NAdd(RE_M, alt_m), cos(deg2rad(lat_deg)) * cos(deg2rad(lon_deg))),
       NScale(NAdd(RE_M, alt_m), cos(deg2rad(lat_deg)) * sin(deg2rad(lon_deg))),
       NScale(NAdd(RP_M, alt_m), sin(deg2rad(lat_deg))) >>

(* pymap3d.ecef2geodetic on the same points *)
ecef2geodetic(v) ==
    IF v[3] = NInt(0)
    THEN << NInt(0), rad2deg(arctan2(NSign(v[2]), NSign(v[1]))),
            NSub(Radius(v), RE_M) >>
    ELSE << rad2deg(arctan2(NSign(v[3]), 0)), rad2deg(arctan2(0, 0)),
            NSub(NAbs(v[3]), RP_M) >>

-----------------------------------------------------------------------------
(* geodetic2cd and cd2geodetic *)

DefaultGeodeticDecimals == 3

KmToM(alt_km) == NMulInt(alt_km, 1000)

(* lines 295-299: the spherical coordinates, then latitude and altitude *)
CDFromSpherical(s, decimals) ==
    << NRound(NSub(NInt(90), s[1]), decimals),
       s[2],
       NRound(NSub(s[3], RE_M), decimals) >>

geodetic2cd(kind, gg, decimals, year) ==
    LET E(p) == geodetic2ecef(p[1], p[2], KmToM(p[3]))
        cd == ecef2eccdf(AsArrays(kind), EachPoint(E, gg), year)
    IN  IF PoleOf(year).exc # "none" THEN [exc |-> PoleOf(year).exc]
        ELSE LET S(v) == ecef2spherical(v, DefaultSphericalDecimals)
                 C(s) == CDFromSpherical(s, decimals)
             IN  [exc |-> "none", kind |-> AsArrays(kind),
                  pts |-> EachPoint(C, EachPoint(S, cd.pts))]

cd2geodetic(kind, cd, decimals, year) ==
    IF ~ArithmeticOK(kind) THEN [exc |-> "TypeError"]
    ELSE
    LET C(p) == spherical2ecef(deg2rad(NSub(NInt(90), p[1])), deg2rad(p[2]),
                               NAdd(p[3], RE_M))
        geoc == eccdf2ecef(IF kind \in Scalars THEN "float" ELSE kind,
                           EachPoint(C, cd), year)
    IN  IF PoleOf(year).exc # "none" THEN [exc |-> PoleOf(year).exc]
        ELSE LET G(v) == ecef2geodetic(v)
                 D(p) == << NRound(p[1], decimals), NRound(p[2], decimals),
                            NRound(p[3], decimals) >>
             IN  [exc |-> "none", kind |-> AsArrays(kind),
                  pts |-> EachPoint(D, EachPoint(G, geoc.pts))]

-----------------------------------------------------------------------------
(* subsol.  An instant is a calendar year, a day of the year and the       *)
(* seconds since midnight; the argument is one datetime, a numpy array of  *)
(* instants, or something else (a list).                                   *)

(* YearInRange with the year 2100 rejected *)
YearInRangeExclusive(year) == 1601 <= year /\ year < 2100

YearInRange(year) == 1601 <= year /\ year <= 2100

(* np.round(n / d) for integers n and d > 0: the nearest integer, a tie    *)
(* going to the even one.                                                  *)
RoundDivEven(n, d) ==
    LET lo  == n \div d
        rem == n % d
    IN  IF 2 * rem > d \/ (2 * rem = d /\ lo % 2 = 1) THEN lo + 1 ELSE lo

(* Lines 66-94 compute the declination (the subsolar latitude) and the     *)
(* equation of time from trigonometric series.  The model does not         *)
(* evaluate the series: it takes both to be 0 degrees, a value each of     *)
(* them takes in the course of a year, which keeps the subsolar point on   *)
(* the exact directions.                                                   *)
Declination(t) == NInt(0)

EquationOfTime(t) == 0

(* lines 96-99, in whole degrees: the Earth turns one degree in 240 s *)
SubsolarLongitude(t) ==
    LET sslon == 180 - ((t.ut \div 240) + EquationOfTime(t))
        nrot  == RoundDivEven(sslon, 360)
    IN  NInt(sslon - 360 * nrot)

(* nleap without the correction for the century years up to 1900 *)
nleapNoCentury(year) == ((year - 1601) \div 4) - 99

(* lines 58-64: floor((year - 1601.0) / 4.0) - 99, and for year <= 1900    *)
(* plus ncent = 3 - floor((year - 1601.0) / 100.0)                         *)
nleap(year) ==
    LET quad == ((year - 1601) \div 4) - 99 IN
    IF year <= 1900 THEN quad + (3 - ((year - 1601) \div 100)) ELSE quad

subsol(kind, datetime) ==
    IF kind \notin {"datetime", "ndarray"}
    THEN [exc |-> "ValueError: input must be datetime.datetime or numpy array"]
    ELSE IF ~(\A j \in 1..Len(datetime) : YearInRange(datetime[j].year))
    THEN [exc |-> "ValueError: Year must be in [1601, 2100]"]
    ELSE [exc   |-> "none",
          kind  |-> IF kind = "datetime" THEN "float" ELSE "ndarray",
          sslat |-> [j \in 1..Len(datetime) |-> Declination(datetime[j])],
          sslon |-> [j \in 1..Len(datetime) |-> SubsolarLongitude(datetime[j])]]

(* the locals of a subsol call that returns: nleap, one per instant *)
subsol_locals(kind, datetime) ==
    IF subsol(kind, datetime).exc # "none" THEN [of |-> "none"]
    ELSE [of |-> "subsol",
          nleap |-> [j \in 1..Len(datetime) |-> nleap(datetime[j].year)]]

-----------------------------------------------------------------------------
(* Floating point.  mlon2mlt ends in float64 arithmetic whose roundings    *)
(* decide whether the result stays below 24.  The model keeps IEEE 754     *)
(* arithmetic (every operation is the exact result rounded to the nearest  *)
(* representable number, a tie going to the even significand) with a       *)
(* significand of Precision bits instead of 53.  A float is held as a      *)
(* whole number of units of 2^-FracBits, the smallest spacing.             *)

Precision == 8

FracBits == 12

RECURSIVE Pow2(_)
Pow2(k) == IF k = 0 THEN 1 ELSE 2 * Pow2(k - 1)

RECURSIVE BitLen(_)
BitLen(a) == IF a = 0 THEN 0 ELSE 1 + BitLen(a \div 2)

Abs(x) == IF x < 0 THEN 0 - x ELSE x

Sgn(x) == IF x < 0 THEN 0 - 1 ELSE IF x > 0 THEN 1 ELSE 0

(* the spacing of the floats around a number of magnitude a *)
Spacing(a) == IF BitLen(a) <= Precision THEN 1 ELSE Pow2(BitLen(a) - Precision)

(* the exact quotient n / d rounded to the nearest float *)
RoundQuotient(n, d) ==
    LET q == Spacing(Abs(n) \div d)
    IN  Sgn(n) * RoundDivEven(Abs(n), d * q) * q

RoundToFloat(x) == RoundQuotient(x, 1)

FloatOfInt(k) == RoundToFloat(k * Pow2(FracBits))

(* a number with at most three decimals as a float *)
FloatOfNum(a) ==
    LET thousandths == a.i * 1000 + (a.f \div Pow10(FracDigits - 3))
    IN  RoundQuotient(thousandths * Pow2(FracBits - 3), 125)

FAdd(a, b) == RoundToFloat(a + b)

FSub(a, b) == RoundToFloat(a - b)

FDivInt(a, k) == RoundQuotient(a, k)

(* C fmod: exact, with the sign of a *)
fmod(a, b) == Sgn(a) * (Abs(a) % b)

(* the float % of Python and numpy for b > 0: fmod, and b added (a float   *)
(* addition) when the remainder is negative                                *)
FloatMod(a, b) ==
    LET mod == fmod(a, b)
    IN  IF mod # 0 /\ mod < 0 THEN FAdd(mod, b) ELSE mod

-----------------------------------------------------------------------------
(* mlon2mlt *)

DefaultSsheight == 50 * 6371

(* DefaultYear for a geodetic2cd whose default epoch is 2000.0 *)
DefaultYear2000 == Date(2000, 0)

DefaultYear == Date(2021, 0)

DefaultDecimals == 2

MltOf(mlon, sslon_cd) ==
    FloatMod(FDivInt(FSub(FAdd(FloatOfInt(180), mlon), sslon_cd), 15),
             FloatOfInt(24))

(* float(sslat_geo), float(sslon_geo): an array of one element converts, *)
(* a longer one raises TypeError                                           *)
FloatOK(ss) == Len(ss.sslat) = 1

mlon2mlt(mkind, mlon_cd, dkind, datetime, ssheight) ==
    LET ss == subsol(dkind, datetime) IN
    IF ss.exc # "none" THEN [exc |-> ss.exc]
    ELSE IF ~FloatOK(ss) THEN [exc |-> "TypeError"]
    ELSE LET M(cd) ==
                 IF cd.exc # "none" THEN [exc |-> cd.exc]
                 ELSE LET T(mlon) == MltOf(mlon, FloatOfNum(cd.pts[1][2]))
                      IN  [exc |-> "none", kind |-> "ndarray",
                           mlt |-> EachPoint(T, mlon_cd)]
         IN  Apply(M, geodetic2cd("float",
                                  <<<<ss.sslat[1], ss.sslon[1], NInt(ssheight)>>>>,
                                  DefaultDecimals, DefaultYear))

-----------------------------------------------------------------------------
(* The arguments the calls are tried with. *)

(* How far outside [1900.0, 2030.0] the dates tried reach, in years. *)
DateMargin == 1

(* The longest list or array tried. *)
MaxLen == 2

(* The magnetic longitudes tried lie within MlonSpread half degrees of a   *)
(* multiple of 90 degrees, up to MlonTurns quarter turns either way.       *)
MlonSpread == 4

MlonTurns == 4

Dates == Date(1900 - DateMargin, 0) .. Date(2030 + DateMargin, 0)

GridDates == {year \in Dates : AxisOnGrid(year)}

(* years for the transforms: out of range on both sides, and in range with *)
(* each of the three dipole axes of the table                              *)
TransformYears ==
    {Date(1899, 9), Date(1900, 0), Date(1987, 5), Date(2000, 0),
     Date(2021, 0), Date(2025, 0), Date(2030, 1)}

DecimalsTried == {1, 2, 3}

(* Geodetic directions: the four equatorial ones and the two poles (where  *)
(* the longitude means nothing and is given as 0).                         *)
Directions ==
    << <<0, 0 - 90>>, <<0, 0>>, <<0, 90>>, <<0, 180>>, <<90, 0>>, <<0 - 90, 0>> >>

(* altitudes in km (for geodetic2cd) *)
AltitudesKm == << NInt(0), NInt(10), Dec(10, 123456) >>

(* altitudes in m (for cd2geodetic) *)
AltitudesM == << NInt(0), NInt(10000), Dec(1000, 500000) >>

NPoints == Len(Directions) * Len(AltitudesKm)

PointAt(alts, k) ==
    LET d == Directions[((k - 1) % Len(Directions)) + 1]
        a == alts[(((k - 1) \div Len(Directions)) % Len(alts)) + 1]
    IN  <<NInt(d[1]), NInt(d[2]), a>>

(* the n points from the k-th on *)
Window(alts, k, n) == [j \in 1..n |-> PointAt(alts, k + j - 1)]

IsWhole(pts) == \A j \in 1..Len(pts) : pts[j][3].f = 0

(* (kind, points) pairs: every point as a float and, when whole, as an     *)
(* int; every window of up to MaxLen points as a list and as an array      *)
CoordArgs(alts) ==
    {a \in [kind : {"int", "float", "list", "ndarray"},
            pts : {Window(alts, k, n) : k \in 1..NPoints, n \in 1..MaxLen}] :
        /\ a.kind \in Scalars => Len(a.pts) = 1
        /\ a.kind = "int" => IsWhole(a.pts)}

EcefOf(pts) ==
    [j \in 1..Len(pts) |-> geodetic2ecef(pts[j][1], pts[j][2], KmToM(pts[j][3]))]


UT == {0, 21600, 43200, 64800}

InstantYears == {1600, 1601, 1900, 2021, 2100, 2101}

Instants == [year : InstantYears, doy : {1}, ut : UT]

InstantSeq == << [year |-> 2021, doy |-> 1, ut |-> 43200],
                 [year |-> 1601, doy |-> 1, ut |-> 0],
                 [year |-> 2101, doy |-> 1, ut |-> 21600],
                 [year |-> 2100, doy |-> 1, ut |-> 64800] >>

InstantWindow(k, n) ==
    [j \in 1..n |-> InstantSeq[((k + j - 2) % Len(InstantSeq)) + 1]]

TimeArgs ==
    {a \in [kind : {"datetime", "list", "ndarray"},
            v : {<<t>> : t \in Instants}
                \cup {InstantWindow(k, n) : k \in 1..Len(InstantSeq),
                                            n \in 1..MaxLen}] :
        a.kind = "datetime" => Len(a.v) = 1}

(* one instant for every calendar year from 1600 to 2101 *)
YearSweep ==
    [kind : {"datetime"},
     v : {<<[year |-> y, doy |-> 1, ut |-> 43200]>> : y \in 1600..2101}]

SubsolArgs == TimeArgs \cup YearSweep

(* Sources for load_coeffs: rows coefficient lines of cols value columns,  *)
(* with or without lines of other kinds before and between them.  The      *)
(* value in row j, column i (both 0-based) is SourceValue(j, i).           *)
MaxExtraRows == 1

MaxExtraCols == 1

RowsTried == (120..(120 + MaxExtraRows)) \cup {195}

ColsTried == (19..(19 + MaxExtraCols)) \cup {25, 26}

SourceValue(j, i) == 1000 * i + j

SourceLine(j, cols) ==
    [prefix |-> IF j % 2 = 0 THEN "g " ELSE "h ",
     tokens |-> <<IF j % 2 = 0 THEN "g" ELSE "h", 1, 0>>
                \o [c \in 1..cols |-> SourceValue(j, c - 1)]]

SourceText(rows, cols, noisy) ==
    LET lines == [j \in 1..rows |-> SourceLine(j - 1, cols)] IN
    IF noisy
    THEN HeaderLines \o SubSeq(lines, 1, 60) \o HeaderLines
         \o SubSeq(lines, 61, rows)
    ELSE lines

SourceArgs == [rows : RowsTried, cols : ColsTried, noisy : BOOLEAN]

(* the layout of the CoefficientTable: 19 columns cut to 120 rows, the     *)
(* epochs 1995-2015 and the secular variation, 195 rows each               *)
IsCoefficientTableSource(a) == a.rows = 195 /\ a.cols = 19 + 5 + 1

MlonValues ==
    {RoundToFloat((180 * q + d) * Pow2(FracBits - 1)) :
        q \in (0 - MlonTurns)..MlonTurns, d \in (0 - MlonSpread)..MlonSpread}

MlonSeq == << FloatOfInt(0 - 180), FloatOfInt(10), FloatOfInt(0 - 91),
              FloatOfInt(350) >>

MlonArgs ==
    [kind : {"float"}, v : {<<m>> : m \in MlonValues}]
    \cup [kind : {"list", "ndarray"},
          v : {[j \in 1..n |-> MlonSeq[((k + j - 2) % Len(MlonSeq)) + 1]] :
                  k \in 1..Len(MlonSeq), n \in 1..MaxLen}]

MltTimeArgs == {a \in TimeArgs : a.kind # "datetime" \/ a.v[1].year \in {2021, 2101}}

-----------------------------------------------------------------------------
(* The calls.  The library keeps no state between calls: a call is made    *)
(* when no result is held, and Forget drops the result held.               *)

Idle == op = "none"

NoOrigin == [op |-> "none"]

NoLocals == [of |-> "none"]

Init ==
    /\ op = "none"
    /\ arg = <<>>
    /\ ret = [exc |-> "none"]
    /\ log = <<>>
    /\ origin = NoOrigin
    /\ local = NoLocals

Forget ==
    /\ ~Idle
    /\ op' = "none"
    /\ arg' = <<>>
    /\ ret' = [exc |-> "none"]
    /\ log' = <<>>
    /\ origin' = NoOrigin
    /\ local' = NoLocals

GetCoeffs ==
    /\ Idle
    /\ \E date \in Dates :
        /\ op' = "get_coeffs"
        /\ arg' = [date |-> date]
        /\ ret' = get_coeffs(GH, date)
        /\ log' = get_coeffs_log(date)
        /\ origin' = NoOrigin
        /\ local' = [of |-> "get_coeffs", reads |-> get_coeffs_reads(GH, date)]

LoadCoeffs ==
    /\ Idle
    /\ \E a \in SourceArgs :
        /\ op' = "load_coeffs"
        /\ arg' = a
        /\ ret' = [exc |-> "none",
                   gh |-> load_coeffs(SourceText(a.rows, a.cols, a.noisy))]
        /\ log' = <<>>
        /\ origin' = NoOrigin
        /\ local' = NoLocals

(* get_coeffs applied to a table load_coeffs returned *)
GetCoeffsOfLoaded ==
    /\ op = "load_coeffs"
    /\ ret.exc = "none"
    /\ IsCoefficientTableSource(arg)
    /\ \E date \in Dates :
        /\ op' = "get_coeffs"
        /\ arg' = [date |-> date]
        /\ ret' = get_coeffs(ret.gh, date)
        /\ log' = get_coeffs_log(date)
        /\ origin' = [op |-> op, arg |-> arg]
        /\ local' = [of |-> "get_coeffs",
                     reads |-> get_coeffs_reads(ret.gh, date)]

ComputePole ==
    /\ Idle
    /\ \E year \in GridDates :
        /\ op' = "compute_pos_centered_dipole_north_pole"
        /\ arg' = [year |-> year]
        /\ ret' = compute_pos_centered_dipole_north_pole(year)
        /\ log' = get_coeffs_log(year)
        /\ origin' = NoOrigin
        /\ local' = NoLocals

Ecef2eccdf ==
    /\ Idle
    /\ \E a \in CoordArgs(AltitudesKm), year \in TransformYears :
        /\ op' = "ecef2eccdf"
        /\ arg' = [kind |-> a.kind, pts |-> EcefOf(a.pts), year |-> year]
        /\ ret' = ecef2eccdf(a.kind, EcefOf(a.pts), year)
        /\ log' = get_coeffs_log(year)
        /\ origin' = NoOrigin
        /\ local' = NoLocals

Eccdf2ecef ==
    /\ Idle
    /\ \E a \in CoordArgs(AltitudesKm), year \in TransformYears :
        /\ op' = "eccdf2ecef"
        /\ arg' = [kind |-> a.kind, pts |-> EcefOf(a.pts), year |-> year]
        /\ ret' = eccdf2ecef(a.kind, EcefOf(a.pts), year)
        /\ log' = get_coeffs_log(year)
        /\ origin' = NoOrigin
        /\ local' = NoLocals

Geodetic2cd ==
    /\ Idle
    /\ \E a \in CoordArgs(AltitudesKm), year \in TransformYears,
          decimals \in DecimalsTried :
        /\ op' = "geodetic2cd"
        /\ arg' = [kind |-> a.kind, pts |-> a.pts, decimals |-> decimals,
                   year |-> year]
        /\ ret' = geodetic2cd(a.kind, a.pts, decimals, year)
        /\ log' = get_coeffs_log(year)
        /\ origin' = NoOrigin
        /\ local' = NoLocals

Cd2geodetic ==
    /\ Idle
    /\ \E a \in CoordArgs(AltitudesM), year \in TransformYears,
          decimals \in DecimalsTried :
        /\ op' = "cd2geodetic"
        /\ arg' = [kind |-> a.kind, pts |-> a.pts, decimals |-> decimals,
                   year |-> year]
        /\ ret' = cd2geodetic(a.kind, a.pts, decimals, year)
        /\ log' = IF ArithmeticOK(a.kind) THEN get_coeffs_log(year) ELSE <<>>
        /\ origin' = NoOrigin
        /\ local' = NoLocals

(* cd2geodetic applied, for the same year, to what geodetic2cd returned *)
Cd2geodeticOfResult ==
    /\ op = "geodetic2cd"
    /\ ret.exc = "none"
    /\ \E decimals \in {DefaultGeodeticDecimals} :
        /\ op' = "cd2geodetic"
        /\ arg' = [kind |-> ret.kind, pts |-> ret.pts, decimals |-> decimals,
                   year |-> arg.year]
        /\ ret' = cd2geodetic(ret.kind, ret.pts, decimals, arg.year)
        /\ log' = get_coeffs_log(arg.year)
        /\ origin' = [op |-> op, arg |-> arg]
        /\ local' = NoLocals

Subsol ==
    /\ Idle
    /\ \E a \in SubsolArgs :
        /\ op' = "subsol"
        /\ arg' = [kind |-> a.kind, datetime |-> a.v]
        /\ ret' = subsol(a.kind, a.v)
        /\ log' = <<>>
        /\ origin' = NoOrigin
        /\ local' = subsol_locals(a.kind, a.v)

Mlon2mlt ==
    /\ Idle
    /\ \E m \in MlonArgs, a \in MltTimeArgs :
        /\ op' = "mlon2mlt"
        /\ arg' = [kind |-> m.kind, mlon_cd |-> m.v, dkind |-> a.kind,
                   datetime |-> a.v, ssheight |-> DefaultSsheight]
        /\ ret' = mlon2mlt(m.kind, m.v, a.kind, a.v, DefaultSsheight)
        /\ log' = IF subsol(a.kind, a.v).exc = "none" /\ Len(a.v) = 1
                  THEN get_coeffs_log(DefaultYear) ELSE <<>>
        /\ origin' = NoOrigin
        /\ local' = NoLocals

Next ==
    \/ GetCoeffs
    \/ LoadCoeffs
    \/ GetCoeffsOfLoaded
    \/ ComputePole
    \/ Ecef2eccdf
    \/ Eccdf2ecef
    \/ Geodetic2cd
    \/ Cd2geodetic
    \/ Cd2geodeticOfResult
    \/ Subsol
    \/ Mlon2mlt
    \/ Forget

Spec == Init /\ [][Next]_vars

-----------------------------------------------------------------------------
(* Properties *)

InModelRange(date) == Date(1900, 0) <= date /\ date <= Date(2030, 0)

Transforms == {"geodetic2cd", "cd2geodetic", "ecef2eccdf", "eccdf2ecef"}

(* get_coeffs called on the table of the package, constants.GH *)
CalledOnGH == op = "get_coeffs" /\ origin = NoOrigin

Logged(msg) == \E k \in 1..Len(log) : log[k] = msg

ReducedAccuracyWarning == "warning: values may be of reduced accuracy"

(* |a - b| <= 10^-decimals, one step of the rounding asked for *)
Close(a, b, decimals) ==
    NLe(NAbs(NSub(a, b)), [i |-> 0, f |-> Pow10(FracDigits - decimals)])

(* C1: cd2geodetic applied, for the same year, to the outputs of           *)
(* geodetic2cd(lat, lon, alt, year) gives back lat, lon and alt, each      *)
(* within the rounding precision, for every year in [1900, 2025].          *)
C1_RoundTrip ==
    (op = "cd2geodetic" /\ origin.op = "geodetic2cd"
        /\ Date(1900, 0) <= origin.arg.year /\ origin.arg.year <= Date(2025, 0))
    => /\ ret.exc = "none"
       /\ Len(ret.pts) = Len(origin.arg.pts)
       /\ \A j \in 1..Len(ret.pts) :
            /\ Close(ret.pts[j][1], origin.arg.pts[j][1], origin.arg.decimals)
            /\ Close(ret.pts[j][2], origin.arg.pts[j][2], origin.arg.decimals)
            /\ Close(ret.pts[j][3], origin.arg.pts[j][3], origin.arg.decimals)

(* C2: get_coeffs returns empty g and empty h, without raising, exactly    *)
(* when date < 1900.0 or date > 2030.0; for every date in [1900.0, 2030.0] *)
(* it returns non-empty g and h.                                           *)
C2_EmptyIffOutOfRange ==
    CalledOnGH
    => /\ ret.exc = "none"
       /\ (ret.g = <<>> /\ ret.h = <<>>)
            <=> (arg.date < Date(1900, 0) \/ arg.date > Date(2030, 0))
       /\ InModelRange(arg.date) => (ret.g # <<>> /\ ret.h # <<>>)

C2_Witness ==
    CalledOnGH /\ arg.date = Date(2030, 0) /\ ret.g # <<>> /\ ret.h # <<>>

(* C3: every transform (geodetic2cd, cd2geodetic, ecef2eccdf, eccdf2ecef,  *)
(* subsol) returns one value per output for a single scalar input, and     *)
(* outputs of length N for a list or an array of length N.                 *)
C3_ShapePreserved ==
    /\ (op \in Transforms /\ InModelRange(arg.year))
       => /\ ret.exc = "none"
          /\ Len(ret.pts) = Len(arg.pts)
    /\ (op = "subsol" /\ \A j \in 1..Len(arg.datetime) :
                            YearInRange(arg.datetime[j].year))
       => /\ ret.exc = "none"
          /\ Len(ret.sslat) = Len(arg.datetime)
          /\ Len(ret.sslon) = Len(arg.datetime)
          /\ arg.kind = "datetime" => ret.kind \in Scalars

(* C4: geodetic2cd and ecef2eccdf accept an int, a float, a list or an     *)
(* array; each output is an array with one element per input point (one    *)
(* element for a scalar), and a scalar gives what the one-element list of  *)
(* the same values gives.                                                  *)
C4_InputKinds ==
    /\ (op \in {"geodetic2cd", "ecef2eccdf"} /\ InModelRange(arg.year))
       => /\ ret.exc = "none"
          /\ ret.kind = "ndarray"
          /\ Len(ret.pts) = Len(arg.pts)
    /\ (op = "geodetic2cd" /\ arg.kind \in Scalars)
       => ret = geodetic2cd("list", arg.pts, arg.decimals, arg.year)
    /\ (op = "ecef2eccdf" /\ arg.kind \in Scalars)
       => ret = ecef2eccdf("list", arg.pts, arg.year)

C4_Witness ==
    /\ op = "geodetic2cd" /\ arg.kind = "int" /\ arg.year = Date(2021, 0)
    /\ ret.exc = "none" /\ ret.kind = "ndarray" /\ Len(ret.pts) = 1

(* C5: for every magnetic longitude and every instant mlon2mlt returns a   *)
(* value in [0, 24): negative differences wrap, and 24 is never returned.  *)
C5_MltInRange ==
    (op = "mlon2mlt" /\ ret.exc = "none")
    => \A j \in 1..Len(ret.mlt) :
           0 <= ret.mlt[j] /\ ret.mlt[j] < FloatOfInt(24)

(* C6: compute_pos_centered_dipole_north_pole raises its ValueError for    *)
(* every year < 1900.0 or > 2030.0, and no transform returns a position    *)
(* for such a year: the error comes out of ecef2eccdf, eccdf2ecef,         *)
(* geodetic2cd and cd2geodetic unchanged (cd2geodetic given a list has     *)
(* already raised TypeError before it reaches the pole).                   *)
C6_PoleErrorPropagates ==
    /\ (op = "compute_pos_centered_dipole_north_pole" /\ ~InModelRange(arg.year))
       => ret.exc = IGRFError
    /\ (op \in Transforms /\ ~InModelRange(arg.year))
       => /\ ret.exc # "none"
          /\ ret.exc # IGRFError => (op = "cd2geodetic" /\ arg.kind = "list")

C6_Witness ==
    /\ op = "geodetic2cd" /\ arg.year = Date(2030, 1) /\ ret.exc = IGRFError

(* C7: subsol accepts exactly the instants whose year is in [1601, 2100];  *)
(* an array with any one element outside raises, with no partial result.   *)
C7_SubsolYearRange ==
    (op = "subsol" /\ arg.kind \in {"datetime", "ndarray"})
    => /\ ret.exc = "none"
            <=> \A j \in 1..Len(arg.datetime) :
                   1601 <= arg.datetime[j].year /\ arg.datetime[j].year <= 2100
       /\ ret.exc # "none" => ret = [exc |-> "ValueError: Year must be in [1601, 2100]"]

C7_Witness ==
    /\ op = "subsol" /\ arg.kind = "ndarray" /\ Len(arg.datetime) = 2
    /\ arg.datetime[1].year = 1601 /\ arg.datetime[2].year = 2101
    /\ ret.exc # "none"

(* C8, as stated: for every date with 2025.0 <= date <= 2030.0 get_coeffs  *)
(* returns non-empty coefficients and warns of reduced accuracy; for every *)
(* date in [1900.0, 2025.0) it does not warn.                              *)
C8_WarnFrom2025 ==
    CalledOnGH
    => /\ (Date(2025, 0) <= arg.date /\ arg.date <= Date(2030, 0))
          => (ret.g # <<>> /\ ret.h # <<>> /\ Logged(ReducedAccuracyWarning))
       /\ (Date(1900, 0) <= arg.date /\ arg.date < Date(2025, 0))
          => ~Logged(ReducedAccuracyWarning)

(* C8, amended: for every date with 2025.0 < date <= 2030.0 get_coeffs     *)
(* returns non-empty coefficients and warns of reduced accuracy; for every *)
(* date in [1900.0, 2025.0], 2025.0 included, it does not warn.            *)
C8_WarnAfter2025 ==
    CalledOnGH
    => /\ (Date(2025, 0) < arg.date /\ arg.date <= Date(2030, 0))
          => (ret.g # <<>> /\ ret.h # <<>> /\ Logged(ReducedAccuracyWarning))
       /\ (Date(1900, 0) <= arg.date /\ arg.date <= Date(2025, 0))
          => ~Logged(ReducedAccuracyWarning)

C8_Witness ==
    /\ CalledOnGH /\ arg.date = Date(2025, 0)
    /\ ret.g # <<>> /\ log = <<>>

(* C9: for every date in [1900.0, 2030.0] g and h have N+1 rows, N = 10    *)
(* before 1995.0 and 13 from then on; row n of each holds exactly n+1      *)
(* entries; g[0][0] and every h[n][0] are None, every other entry a number.*)
C9_TriangularShape ==
    (CalledOnGH /\ InModelRange(arg.date))
    => LET N == IF arg.date < Date(1995, 0) THEN 10 ELSE 13 IN
       /\ ret.exc = "none"
       /\ Len(ret.g) = N + 1
       /\ Len(ret.h) = N + 1
       /\ \A n \in 0..N :
            /\ Len(ret.g[n + 1]) = n + 1
            /\ Len(ret.h[n + 1]) = n + 1
            /\ ret.h[n + 1][1] = None
            /\ \A m \in 1..n : ret.g[n + 1][m + 1] # None /\ ret.h[n + 1][m + 1] # None
            /\ (ret.g[n + 1][1] = None) <=> (n = 0)

(* C10: geodetic2cd rounds each output once, at the end, to the decimals   *)
(* asked for: each output is the unrounded CD latitude, longitude and      *)
(* altitude rounded to that many decimals.                                 *)
UnroundedCD(p, year) ==
    CDFromSpherical(
        ecef2spherical(
            RotateToCD(BaseVectors(PoleOf(year).colat, PoleOf(year).long),
                       geodetic2ecef(p[1], p[2], KmToM(p[3]))),
            FracDigits),
        FracDigits)

C10_RoundedOnceAtEnd ==
    (op = "geodetic2cd" /\ ret.exc = "none")
    => \A j \in 1..Len(ret.pts) :
          \A c \in 1..3 :
             ret.pts[j][c] = NRound(UnroundedCD(arg.pts[j], arg.year)[c], arg.decimals)

IsLeapYear(y) == y % 4 = 0 /\ (y % 100 # 0 \/ y % 400 = 0)

(* signed number of days from 1 January 2000 to 1 January of year, in the  *)
(* Gregorian calendar                                                      *)
DaysFrom2000(year) ==
    IF year >= 2000
    THEN 365 * (year - 2000)
         + Cardinality({y \in 2000..(year - 1) : IsLeapYear(y)})
    ELSE 0 - (365 * (2000 - year)
              + Cardinality({y \in year..1999 : IsLeapYear(y)}))

(* C14: for every calendar year in [1601, 2100], 365 * (year - 2000) plus  *)
(* the nleap subsol computes is the signed number of days from 1 January   *)
(* 2000 to 1 January of that year in the Gregorian calendar.               *)
C14_LeapDayCount ==
    (op = "subsol" /\ ret.exc = "none")
    => /\ local.of = "subsol"
       /\ \A j \in 1..Len(arg.datetime) :
            365 * (arg.datetime[j].year - 2000) + local.nleap[j]
                = DaysFrom2000(arg.datetime[j].year)

C14_Witness ==
    /\ op = "subsol" /\ ret.exc = "none"
    /\ arg.datetime[1].year = 1700
    /\ local.nleap[1] = 0 - 72

(* The lower regime at the end of its last interval: the pointer and the  *)
(* block length of the dates just below the boundary, with the weight t    *)
(* at 1 and tc at 0.                                                       *)
RegimeReaching(boundary) ==
    [Regime(boundary - 1) EXCEPT !.t = WeightDen, !.tc = 0]

CoeffsReaching(boundary) ==
    LET p == RegimeReaching(boundary)
    IN  DegreeLoop(GH, p, 0, p.ll - 1, <<>>, <<>>)

(* C11: at 1995.0 and at 2020.0, for every coefficient position present on *)
(* both sides (n <= 10 at 1995.0, n <= 13 at 2020.0), the value the lower  *)
(* regime reaches at the boundary (t = 1) is the value get_coeffs returns  *)
(* at exactly the boundary date (t = 0): no coefficient jumps.             *)
C11_ContinuousAtBoundaries ==
    (CalledOnGH /\ arg.date \in {Date(1995, 0), Date(2020, 0)})
    => LET lower == CoeffsReaching(arg.date)
           N == IF arg.date = Date(1995, 0) THEN 10 ELSE 13
       IN  /\ ret.exc = "none" /\ lower.exc = "none"
           /\ \A n \in 1..N : \A m \in 0..n :
                /\ ret.g[n + 1][m + 1] = lower.g[n + 1][m + 1]
                /\ ret.h[n + 1][m + 1] = lower.h[n + 1][m + 1]

C11_Witness ==
    /\ CalledOnGH /\ arg.date = Date(1995, 0)
    /\ ret.g[11][11] = Some(WeightDen * GH[19 * 120 + 118 + 1])
    /\ CoeffsReaching(arg.date).g[11][11] = ret.g[11][11]

(* T[i] of the claim: element i, counted from 0, of the table GH *)
TableAt(i) == GH[i + 1]

(* the value the source file holds for coefficient k in value column c,    *)
(* both counted from 0                                                     *)
FileValue(k, c) == SelectRows(igrf_file)[k + 1][c + 1]

(* The k-th coefficient in sequence order as the claim gives it for the    *)
(* date, times WeightDen.  The weight t, in units of 1 / WeightDen, is     *)
(* 0.2 * (date - 1900) less its whole part e.                              *)
ExpectedCoefficient(date, k) ==
    LET e == (date - Date(1900, 0)) \div WeightDen
        t == (date - Date(1900, 0)) - WeightDen * e
        f == (date - Date(1995, 0)) \div WeightDen
    IN  IF date < Date(1995, 0)
        THEN (WeightDen - t) * TableAt(120 * e + k)
             + t * TableAt(120 * e + 120 + k)
        ELSE IF date < Date(2020, 0)
        THEN (WeightDen - t) * TableAt(2280 + 195 * f + k)
             + t * TableAt(2280 + 195 * (f + 1) + k)
        ELSE WeightDen * FileValue(k, NEpochCols - 1)
             + 5 * (date - Date(2020, 0)) * FileValue(k, NEpochCols)

(* C12: for every date in [1900.0, 2030.0] the k-th coefficient in         *)
(* sequence order (g[1][0], g[1][1], h[1][1], g[2][0], ...) is             *)
(* (1-t)*T[120e+k] + t*T[120e+120+k] before 1995.0,                        *)
(* (1-t)*T[2280+195f+k] + t*T[2280+195(f+1)+k] from 1995.0 to 2020.0, and  *)
(* from 2020.0 on the coefficient of the last full epoch plus              *)
(* (date - 2020.0) times its secular variation.                            *)
C12_InterpolationByIndex ==
    (CalledOnGH /\ InModelRange(arg.date))
    => /\ ret.exc = "none"
       /\ \A n \in 1..Len(ret.g) - 1 :
            LET k0 == n * n - 1 IN
            /\ ret.g[n + 1][1] = Some(ExpectedCoefficient(arg.date, k0))
            /\ \A m \in 1..n :
                 /\ ret.g[n + 1][m + 1]
                      = Some(ExpectedCoefficient(arg.date, k0 + 2 * m - 1))
                 /\ ret.h[n + 1][m + 1]
                      = Some(ExpectedCoefficient(arg.date, k0 + 2 * m))

C12_Witness ==
    /\ CalledOnGH /\ arg.date = Date(2022, 5)
    /\ ret.g[4][3] = Some(50 * 24011 + 125 * 25011)

(* C13: for a source with R >= 120 selected rows and E >= 19 value columns *)
(* load_coeffs returns a sequence of length 19*120 + (E-19)*R + 1: column  *)
(* i < 19 fills slots [120*i, 120*i + 120) with its first 120 rows, each   *)
(* column i >= 19 fills the next R slots with all its rows, the last       *)
(* element is 0, and lines not starting with "g " or "h " add nothing.     *)
C13_FlatLayout ==
    op = "load_coeffs"
    => LET R == arg.rows
           E == arg.cols
       IN  /\ ret.exc = "none"
           /\ Len(ret.gh) = 19 * 120 + (E - 19) * R + 1
           /\ \A i \in 0..18 : \A j \in 0..119 :
                ret.gh[120 * i + j + 1] = SourceValue(j, i)
           /\ \A i \in 19..(E - 1) : \A j \in 0..(R - 1) :
                ret.gh[19 * 120 + (i - 19) * R + j + 1] = SourceValue(j, i)
           /\ ret.gh[Len(ret.gh)] = 0

C13_Witness ==
    /\ op = "load_coeffs" /\ arg.rows = 121 /\ arg.cols = 20 /\ arg.noisy
    /\ Len(ret.gh) = 2402

(* C15: for a table laid out as 19 blocks of 120, the 195-value blocks of *)
(* the epochs 1995-2015, one 195-value secular-variation block and one     *)
(* sentinel, and every date in [1900.0, 2030.0], every flat index          *)
(* get_coeffs reads is a position of the table: none lies before the first *)
(* element and none past the last.                                         *)
C15_ReadsInsideTable ==
    (op = "get_coeffs" /\ origin.op = "load_coeffs"
        /\ IsCoefficientTableSource(origin.arg) /\ InModelRange(arg.date))
    => LET T == load_coeffs(SourceText(origin.arg.rows, origin.arg.cols,
                                       origin.arg.noisy))
           last == Len(T) - 1
       IN  /\ last = 19 * 120 + 5 * 195 + 195
           /\ \A k \in 1..Len(local.reads) :
                0 <= local.reads[k] /\ local.reads[k] <= last

(* the CD longitude, for the dipole axis of the epoch year, of the         *)
(* subsolar point of instant t at the height mlon2mlt is given             *)
SubsolarCDLongitude(t, ssheight, year) ==
    geodetic2cd("float",
                <<<<Declination(t), SubsolarLongitude(t), NInt(ssheight)>>>>,
                2, year).pts[1][2]

=============================================================================
